---- MODULE Spec2Model ----
(***************************************************************************)
(* Model of terrible.cc: the keystream generator, the keystream cursor     *)
(* (keystream_iterator), read_key, and the three modes of main (crypt,     *)
(* keystream, xor).                                                        *)
(*                                                                         *)
(* A byte vector (std::vector<byte>) is a TLA+ sequence; the C++ index i   *)
(* is the TLA+ index i + 1 (operator At).                                  *)
(***************************************************************************)
EXTENDS Integers, Sequences, FiniteSets, TLC

VARIABLES
    pc,         \* position of main: "start", a mode's step, "done", "aborted"; "harness" and "cursors" for the class-level runs
    argv,       \* argv[1..]: the command and its arguments (argv[0] is left out)
    stdin,      \* the bytes standard input holds
    fileA,      \* the file named "a": [exists, data]
    fileB,      \* the file named "b": [exists, data]
    key,        \* main's local `key` (lines 138, 143)
    len,        \* main's local `len` (line 144), then generate_n's remaining count
    ks_it,      \* crypt: the keystream_iterator temporary of line 139
    ks_gen,     \* keystream: the generator generate_n holds (line 145)
    in1,        \* the first istream_iterator (in_it on std::cin, or byte_it{file_1})
    in2,        \* byte_it{file_2}
    out,        \* the bytes written to standard output
    err,        \* the lines written to standard error
    exit_code,  \* main's return value, NoExit while running
    run,        \* 1: the first run; 2: a second crypt run fed the first run's output;
                \* 3: a crypt run on the second data; 4: the xor run on the two outputs
    orig_in,    \* the standard input of run 1
    chain,      \* what the caller does after run 1: [reuse, d2]
    hkey,       \* harness: the key vector each caller holds and passes to the constructor
    hgen,       \* harness: the generator instances
    hout,       \* harness: the bytes each instance returned so far
    hit,        \* harness: the cursor instances
    hadv,       \* harness: the advances made on each cursor since its construction
    hobs,       \* harness: what the caller's last operation on each cursor returned: [op, value, n]
    hcmp        \* harness: the results of the caller's last comparison of the two cursors

vars == << pc, argv, stdin, fileA, fileB, key, len, ks_it, ks_gen, in1, in2,
           out, err, exit_code, run, orig_in, chain,
           hkey, hgen, hout, hit, hadv, hobs, hcmp >>

mainVars == << argv, stdin, fileA, fileB, key, len, ks_it, ks_gen, in1, in2,
               out, err, exit_code, run, orig_in, chain >>

harnessVars == << hkey, hgen, hout, hit, hadv, hobs, hcmp >>

(***************************************************************************)
(* Bounds of the model.                                                    *)
(***************************************************************************)
\* longest standard input / xor file, in bytes
MaxData == 3
\* cap on the bytes one run writes (only a run asked for 2^64 - k bytes meets it)
MaxOut == 260
\* calls made on each generator instance of the harness, and advances made
\* on each cursor instance
MaxCalls == 4
\* reads of a cursor's current byte between two advances
MaxDerefs == 2

(***************************************************************************)
(* Bytes and vectors.                                                      *)
(***************************************************************************)
Byte == 0..255

\* static constexpr std::size_t keysize = 256;
keysize == 256

At(v, i) == v[i + 1]

Range(s) == { s[i] : i \in DOMAIN s }

Last(s) == s[Len(s)]

\* std::swap(v[a], v[b]) on a vector
swap(v, a, b) == [v EXCEPT ![a + 1] = At(v, b), ![b + 1] = At(v, a)]

RECURSIVE XorBits(_, _, _)
XorBits(a, b, n) ==
    IF n = 0 THEN 0
    ELSE (((a % 2) + (b % 2)) % 2) + 2 * XorBits(a \div 2, b \div 2, n - 1)

\* mutant of bit_xor: the bytes are added, not XORed
bit_xor_as_sum(a, b) == (a + b) % 256

\* mutant of bit_xor: the top bit is dropped
bit_xor_seven_bits(a, b) == XorBits(a, b, 7)

\* std::bit_xor<byte>{}(a, b): a ^ b on 8 bits
bit_xor(a, b) == XorBits(a, b, 8)

(***************************************************************************)
(* keystream_generator (lines 36-66).                                      *)
(***************************************************************************)
\* no generator object: not constructed yet, or the constructor threw
NoGen == [built |-> FALSE, threw |-> FALSE]

Threw == [built |-> FALSE, threw |-> TRUE]

\* mutant of member_init: m_q has no initialiser and holds what the memory held
member_init_uninit == { [m_i |-> 0, m_q |-> q] : q \in { 0, 1 } }

\* the default member initialisers of lines 64-65: m_i = 0, m_q = 0.
\* A set: the values the members can hold right after construction.
member_init == { [m_i |-> 0, m_q |-> 0] }

\* mutant of the constructor: only a key that is too short is refused
keystream_generator_lax(k) ==
    IF Len(k) < keysize
    THEN { [threw |-> TRUE, what |-> "invalid keysize", gen |-> Threw] }
    ELSE { [threw |-> FALSE, what |-> "",
            gen |-> [built |-> TRUE, threw |-> FALSE, m_key |-> k, m_i |-> 0, m_q |-> 0]] }

\* mutant of pass_key: the caller's vector is moved from, not copied
pass_key_moved(k) == [param |-> k, caller |-> << >>]

\* The parameter `bytes key` of both constructors (lines 40 and 70), passed
\* the caller's lvalue (lines 139 and 145): the parameter is a copy, and the
\* std::move of the member initialiser moves from that copy.  param is what
\* the constructor receives, caller what the caller's vector holds afterwards.
pass_key(k) == [param |-> k, caller |-> k]

\* keystream_generator(bytes key): the results of the constructor, either a
\* generator or the exception thrown
keystream_generator(k) ==
    IF Len(k) # keysize
    THEN { [threw |-> TRUE, what |-> "invalid keysize", gen |-> Threw] }
    ELSE { [threw |-> FALSE, what |-> "",
            gen |-> [built |-> TRUE, threw |-> FALSE, m_key |-> k, m_i |-> m.m_i, m_q |-> m.m_q]]
           : m \in member_init }

\* mutant of step_swap: m_key[h] = m_key[m_q], the old m_key[h] is lost
step_swap_overwrite(k, h, q) == [k EXCEPT ![h + 1] = At(k, q)]

\* std::swap(m_key[h], m_key[m_q]) of line 54
step_swap(k, h, q) == swap(k, h, q)

\* mutant of step_return: the index is returned, not the byte it names
step_return_index(k, w) == w

\* return m_key[w] of line 56
step_return(k, w) == At(k, w)

\* mutant of step_index: the values the comment of line 49 announces,
\* 1, 2, ..., 255, 1, ..., which never reach index 0
step_index_skip0(i1) == ((i1 - 1) % (keysize - 1)) + 1

\* const auto h = (++m_i) % keysize of line 50, i1 being the incremented m_i
step_index(i1) == i1 % keysize

\* mutant of step_q: the accumulator is not carried from call to call
step_q_no_carry(m_q, k, h) == At(k, h) % keysize

\* m_q = (m_q + m_key[h]) % keysize of line 52, read before the swap
step_q(m_q, k, h) == (m_q + At(k, h)) % keysize

\* byte operator()(): the generator after the call and the byte returned.
\* m_i is a std::size_t that is never reduced; h is m_i mod keysize.  The
\* bounds keep m_i far below 2^64, where it would wrap (to 0, as 2^64 is a
\* multiple of keysize).
call(g) ==
    LET i1 == g.m_i + 1
        h  == step_index(i1)
        q  == step_q(g.m_q, g.m_key, h)
        k1 == step_swap(g.m_key, h, q)
        w  == (At(k1, h) + At(k1, q)) % keysize
    IN  [gen |-> [g EXCEPT !.m_key = k1, !.m_i = i1, !.m_q = q],
         ret |-> step_return(k1, w),
         h |-> h, w |-> w]

\* const bytes& key() const
gen_key(g) == g.m_key

\* std::size_t pos() const
gen_pos(g) == g.m_i

(***************************************************************************)
(* keystream_iterator (lines 68-99): [m_gen, m_current].                   *)
(***************************************************************************)
\* keystream_iterator& operator++(): m_current = m_gen()
it_inc(it) ==
    LET c == call(it.m_gen)
    IN  [m_gen |-> c.gen, m_current |-> c.ret]

\* mutant of it_post_inc: the byte after the advance is returned
it_post_inc_new(it) ==
    [retval |-> it_inc(it).m_current, it |-> it_inc(it)]

\* byte_wrapper operator++(int): the byte that was current, and the advance
it_post_inc(it) ==
    [retval |-> it.m_current, it |-> it_inc(it)]

\* reference operator*() const
it_deref(it) == it.m_current

\* mutant of the cursor's constructor: it advances twice
keystream_iterator_reprimed(k) ==
    { IF r.threw
      THEN [threw |-> TRUE, what |-> r.what]
      ELSE [threw |-> FALSE, what |-> "",
            it |-> it_inc(it_inc([m_gen |-> r.gen, m_current |-> 0]))]
      : r \in keystream_generator(k) }

\* keystream_iterator(bytes key) : m_gen{std::move(key)} { ++(*this); }
keystream_iterator(k) ==
    { IF r.threw
      THEN [threw |-> TRUE, what |-> r.what]
      ELSE [threw |-> FALSE, what |-> "",
            it |-> it_inc([m_gen |-> r.gen, m_current |-> 0])]
      : r \in keystream_generator(k) }

\* mutant of it_eq: the position is not compared
it_eq_key_only(l, r) == gen_key(l.m_gen) = gen_key(r.m_gen)

\* operator==(const keystream_iterator&, const keystream_iterator&)
it_eq(l, r) ==
    gen_key(l.m_gen) = gen_key(r.m_gen) /\ gen_pos(l.m_gen) = gen_pos(r.m_gen)

\* operator!=
it_neq(l, r) == ~it_eq(l, r)

(***************************************************************************)
(* std::istream_iterator<byte> over a stream set to noskipws:              *)
(* [ok, held, value, pos].  ok is FALSE for an end-of-stream iterator;     *)
(* value is the last byte read and is meaningless until held is TRUE.      *)
(***************************************************************************)
\* operator++ / the read of the constructor: one byte, or end-of-stream
is_read(it, data) ==
    IF it.ok /\ it.pos < Len(data)
    THEN [ok |-> TRUE, held |-> TRUE, value |-> data[it.pos + 1], pos |-> it.pos + 1]
    ELSE [it EXCEPT !.ok = FALSE]

\* istream_iterator(stream): reads the first byte
istream_iterator(data) ==
    is_read([ok |-> TRUE, held |-> FALSE, value |-> 0, pos |-> 0], data)

\* Dereferencing an end-of-stream iterator is undefined.  A build either
\* stops the program (checked iterators) or yields the value the iterator
\* still holds: the last byte read, or an indeterminate byte if none was.
stale_values(it) == IF it.held THEN { it.value } ELSE Byte

(***************************************************************************)
(* The files of the model.                                                 *)
(***************************************************************************)
KeyPatterns == { "id", "zero", "sev", "mix" }

\* byte i (from 0) of a key pattern
Pattern(p, i) ==
    CASE p = "id"   -> i % 256
      [] p = "zero" -> 0
      [] p = "sev"  -> 7
      [] p = "mix"  -> (7 * i * i + 3 * i + 13) % 256
      [] p = "sw12" -> IF i = 1 THEN 2 ELSE IF i = 2 THEN 1 ELSE i % 256
      [] p = "sw13" -> IF i = 1 THEN 3 ELSE IF i = 3 THEN 1 ELSE i % 256

PatternBytes(p, n) == [i \in 1..n |-> Pattern(p, i - 1)]

\* key files of exactly keysize bytes
GoodKeyFiles == { "id", "zero", "sev", "mix" }

\* key files of another size: longer, one byte short, one byte, empty
LongKeyFiles == { "mix_long" }

ShortKeyFiles == { "mix_short", "one", "empty" }

KeyFileData(name) ==
    CASE name \in GoodKeyFiles -> PatternBytes(name, keysize)
      [] name = "mix_long"     -> PatternBytes("mix", keysize + 44)
      [] name = "mix_short"    -> PatternBytes("mix", keysize - 1)
      [] name = "one"          -> << 90 >>
      [] name = "empty"        -> << >>

NoFile == [exists |-> FALSE, data |-> << >>]

\* the file a name refers to; any other name ("missing") is no file
FS(name) ==
    CASE name = "a" -> fileA
      [] name = "b" -> fileB
      [] name \in GoodKeyFiles \cup LongKeyFiles \cup ShortKeyFiles
                    -> [exists |-> TRUE, data |-> KeyFileData(name)]
      [] OTHER      -> NoFile

(***************************************************************************)
(* read_key (lines 102-113).                                               *)
(***************************************************************************)
\* std::copy_n(std::istream_iterator<byte>{file}, keysize, back_inserter(key)):
\* keysize bytes are appended whatever the file holds.  Past the end of a
\* short file the iterator is dereferenced at end-of-stream (undefined).
copy_n(data) ==
    IF Len(data) >= keysize
    THEN { [kind |-> "ok", key |-> SubSeq(data, 1, keysize)] }
    ELSE { [kind |-> "abort", key |-> << >>] }
         \cup
         { [kind |-> "ok",
            key |-> [i \in 1..keysize |-> IF i <= Len(data) THEN data[i] ELSE v]]
           : v \in stale_values(IF data = << >>
                                THEN [held |-> FALSE, value |-> 0]
                                ELSE [held |-> TRUE, value |-> Last(data)]) }

\* bytes read_key(const std::string& filename)
read_key(filename) ==
    IF ~FS(filename).exists
    THEN { [kind |-> "throw", what |-> "could not open key-file", key |-> << >>] }
    ELSE { [kind |-> r.kind, what |-> "", key |-> r.key] : r \in copy_n(FS(filename).data) }

(***************************************************************************)
(* std::stoul(argv[3]) (line 144).  A string is a sequence of one-character*)
(* strings.  An unsigned long (64 bits) is the sequence of the decimal      *)
(* digits of its value, the most significant first, with no leading zero:  *)
(* << 0 >> is 0 and ULONG_MAX is 2^64 - 1.                                  *)
(***************************************************************************)
Digits == { "0", "1", "2", "3", "4", "5", "6", "7", "8", "9" }

DigitVal(c) ==
    CASE c = "0" -> 0 [] c = "1" -> 1 [] c = "2" -> 2 [] c = "3" -> 3
      [] c = "4" -> 4 [] c = "5" -> 5 [] c = "6" -> 6 [] c = "7" -> 7
      [] c = "8" -> 8 [] c = "9" -> 9

\* the characters isspace() accepts in the C locale: the blank, \t, \n,
\* \f, \r and the vertical tab
Spaces == { " ", "\t", "\n", "\f", "\r", "" }

\* 2^64 - 1 and 2^64
ULONG_MAX == << 1, 8, 4, 4, 6, 7, 4, 4, 0, 7, 3, 7, 0, 9, 5, 5, 1, 6, 1, 5 >>

TwoTo64 == << 1, 8, 4, 4, 6, 7, 4, 4, 0, 7, 3, 7, 0, 9, 5, 5, 1, 6, 1, 6 >>

\* the first index at or after i, below Len(d), at which d holds no zero
RECURSIVE ul_first(_, _)
ul_first(d, i) ==
    IF i < Len(d) /\ d[i] = 0 THEN ul_first(d, i + 1) ELSE i

\* a digit sequence without its leading zeros (one digit at least is kept).
\* Here and below an argument is bound as the element of a one-element set,
\* which has it evaluated once, before the operator works on it.
ul_strip(d) ==
    CHOOSE r \in { IF Len(v) = 0 THEN v ELSE SubSeq(v, ul_first(v, 1), Len(v))
                   : v \in { d } } : TRUE

\* a <= b from digit i on, for digit sequences of one length
RECURSIVE ul_le_from(_, _, _)
ul_le_from(a, b, i) ==
    IF i > Len(a) THEN TRUE
    ELSE IF a[i] # b[i] THEN a[i] < b[i]
    ELSE ul_le_from(a, b, i + 1)

\* a <= b, on digit sequences without leading zeros
ul_le(a, b) ==
    \E x \in { a }, y \in { b } :
        IF Len(x) # Len(y) THEN Len(x) < Len(y) ELSE ul_le_from(x, y, 1)

\* the digits 1..i of a - b, both of one length, with the borrow that
\* comes into digit i
RECURSIVE ul_sub_digits(_, _, _, _)
ul_sub_digits(a, b, i, borrow) ==
    IF i = 0 THEN << >>
    ELSE LET x == a[i] - b[i] - borrow
         IN  Append(ul_sub_digits(a, b, i - 1, IF x < 0 THEN 1 ELSE 0),
                    IF x < 0 THEN x + 10 ELSE x)

\* b with zeros in front, n digits in all
ul_pad(b, n) ==
    [j \in 1..n |-> IF j <= n - Len(b) THEN 0 ELSE b[j - (n - Len(b))]]

\* a - b for b <= a
ul_sub(a, b) ==
    CHOOSE r \in { ul_strip(ul_sub_digits(x, ul_pad(y, Len(x)), Len(x), 0))
                   : x \in { a }, y \in { b } } : TRUE

\* -d on an unsigned long: 2^64 - d, and 0 for 0
ul_neg(d) == IF d = << 0 >> THEN d ELSE ul_sub(TwoTo64, d)

\* --n on an unsigned long
ul_dec(d) == IF d = << 0 >> THEN ULONG_MAX ELSE ul_sub(d, << 1 >>)

\* the unsigned long that holds the natural number n
RECURSIVE ul_of_nat(_)
ul_of_nat(n) ==
    IF n < 10 THEN << n >> ELSE Append(ul_of_nat(n \div 10), n % 10)

\* the first index at or after i that holds no white space
RECURSIVE SkipSpace(_, _)
SkipSpace(s, i) ==
    IF i <= Len(s) /\ s[i] \in Spaces THEN SkipSpace(s, i + 1) ELSE i

\* the values of the decimal digits that stand at index i and after it
RECURSIVE ReadDigits(_, _)
ReadDigits(s, i) ==
    IF i <= Len(s) /\ s[i] \in Digits
    THEN << DigitVal(s[i]) >> \o ReadDigits(s, i + 1)
    ELSE << >>

\* std::stoul(s) with base 10, by strtoul: white space, an optional sign,
\* decimal digits; what follows the digits is ignored.  No digit:
\* std::invalid_argument; digits that denote more than ULONG_MAX (with or
\* without a '-'): std::out_of_range; both say "stoul".  A '-' negates the
\* value as an unsigned long.
stoul(s) ==
    LET i0  == SkipSpace(s, 1)
        sgn == i0 <= Len(s) /\ s[i0] \in { "+", "-" }
        neg == sgn /\ s[i0] = "-"
        d   == ReadDigits(s, IF sgn THEN i0 + 1 ELSE i0)
        m   == ul_strip(d)
    IN  IF Len(d) = 0 \/ ~ul_le(m, ULONG_MAX)
        THEN [threw |-> TRUE, what |-> "stoul", value |-> << 0 >>]
        ELSE [threw |-> FALSE, what |-> "", value |-> IF neg THEN ul_neg(m) ELSE m]

\* the strings that denote a non-negative integer an unsigned long holds:
\* digits and nothing else, after optional white space and an optional '+'
IsNonNegInteger(s) ==
    LET i0 == SkipSpace(s, 1)
        i1 == IF i0 <= Len(s) /\ s[i0] = "+" THEN i0 + 1 ELSE i0
    IN  /\ i1 <= Len(s)
        /\ \A i \in i1..Len(s) : s[i] \in Digits
        /\ ul_le(ul_strip(ReadDigits(s, i1)), ULONG_MAX)

(***************************************************************************)
(* The inputs of the model.                                                *)
(***************************************************************************)
DataBytes == { 90, 255 }

\* every byte sequence of at most MaxData bytes over DataBytes
DataSeqs == UNION { [1..n -> DataBytes] : n \in 0..MaxData }

\* the length arguments tried in keystream mode
LenArgs ==
    { << "0" >>, << "2" >>, << "2", "5", "7" >>, << " ", "+", "3" >>,
      << "\t", "\n", "0", "4" >>,
      << >>, << "a", "b", "c" >>, << "-" >>, << "-", "1" >>,
      << "1", "2", "a", "b", "c" >>,
      \* 2^64 and -(2^64 - 1)
      << "1", "8", "4", "4", "6", "7", "4", "4", "0", "7", "3", "7", "0", "9",
         "5", "5", "1", "6", "1", "6" >>,
      << "-", "1", "8", "4", "4", "6", "7", "4", "4", "0", "7", "3", "7", "0",
         "9", "5", "5", "1", "6", "1", "5" >> }

\* the key vectors handed to the constructor in the class-level runs
HarnessKeys ==
    { PatternBytes(p, keysize) : p \in KeyPatterns }
    \cup { PatternBytes("mix", n) : n \in { 0, keysize - 1, keysize + 1 } }

\* the key vectors handed to the cursors of the class-level runs: two
\* constant-free ones, two that differ in entries 1, 2 and 3 only, and one
\* of the wrong size
CursorKeys ==
    { PatternBytes(p, keysize) : p \in { "id", "zero", "sw12", "sw13" } }
    \cup { PatternBytes("mix", keysize - 1) }

Instances == { 1, 2 }

NoChain == [reuse |-> FALSE, d2 |-> << >>]

NoObs == [op |-> "none", value |-> 0, n |-> 0]

NoCmp == [done |-> FALSE, eq |-> FALSE, neq |-> FALSE]

NoExit == 0 - 1

NoIt == [ok |-> FALSE, held |-> FALSE, value |-> 0, pos |-> 0]

NoKsIt == [m_gen |-> NoGen, m_current |-> 0]

argc == Len(argv) + 1

(***************************************************************************)
(* Initial states: one invocation of the program, or the class-level       *)
(* harness (two generator objects a caller constructs and calls).          *)
(***************************************************************************)
NoHarness ==
    /\ hkey = [i \in Instances |-> << >>]
    /\ hgen = [i \in Instances |-> NoGen]
    /\ hout = [i \in Instances |-> << >>]
    /\ hit = [i \in Instances |-> NoKsIt]
    /\ hadv = [i \in Instances |-> 0]
    /\ hobs = [i \in Instances |-> NoObs]
    /\ hcmp = NoCmp

InitRun(args, input, a, b) ==
    /\ pc = "start"
    /\ argv = args
    /\ stdin = input
    /\ fileA = a
    /\ fileB = b
    /\ key = << >>
    /\ len = << 0 >>
    /\ ks_it = NoKsIt
    /\ ks_gen = NoGen
    /\ in1 = NoIt
    /\ in2 = NoIt
    /\ out = << >>
    /\ err = << >>
    /\ exit_code = NoExit
    /\ run = 1
    /\ orig_in = input
    /\ NoHarness

InitUsage ==
    /\ chain = NoChain
    /\ \E args \in { << >>, << "bogus" >>, << "crypt" >>, << "keystream" >>,
                  << "keystream", "id" >>, << "xor" >>, << "xor", "a" >> } :
        InitRun(args, << >>, NoFile, NoFile)

InitCrypt ==
    /\ chain = NoChain
    /\ \/ \E kf \in GoodKeyFiles \cup LongKeyFiles \cup { "missing" }, d \in DataSeqs :
              InitRun(<< "crypt", kf >>, d, NoFile, NoFile)
       \/ \E kf \in ShortKeyFiles, d \in { s \in DataSeqs : Len(s) <= 1 } :
              InitRun(<< "crypt", kf >>, d, NoFile, NoFile)

InitKeystream ==
    /\ chain = NoChain
    /\ \/ \E kf \in GoodKeyFiles \cup LongKeyFiles \cup { "missing" }, l \in LenArgs :
              InitRun(<< "keystream", kf, l >>, << >>, NoFile, NoFile)
       \/ \E kf \in ShortKeyFiles, l \in { << "2" >>, << "a", "b", "c" >> } :
              InitRun(<< "keystream", kf, l >>, << >>, NoFile, NoFile)

InitXor ==
    /\ chain = NoChain
    /\ \E a, b \in { [exists |-> TRUE, data |-> d] : d \in DataSeqs } \cup { NoFile },
       f2 \in { "a", "b" } :
        InitRun(<< "xor", "a", f2 >>, << >>, a, b)

InitHarness ==
    /\ pc = "harness"
    /\ argv = << >>
    /\ stdin = << >>
    /\ fileA = NoFile
    /\ fileB = NoFile
    /\ key = << >>
    /\ len = << 0 >>
    /\ ks_it = NoKsIt
    /\ ks_gen = NoGen
    /\ in1 = NoIt
    /\ in2 = NoIt
    /\ out = << >>
    /\ err = << >>
    /\ exit_code = NoExit
    /\ run = 1
    /\ orig_in = << >>
    /\ chain = NoChain
    /\ hkey \in [Instances -> HarnessKeys]
    /\ hgen = [i \in Instances |-> NoGen]
    /\ hout = [i \in Instances |-> << >>]
    /\ hit = [i \in Instances |-> NoKsIt]
    /\ hadv = [i \in Instances |-> 0]
    /\ hobs = [i \in Instances |-> NoObs]
    /\ hcmp = NoCmp

\* the class-level runs on cursors: two keystream_iterator objects a caller
\* constructs, reads, advances and compares
InitCursors ==
    /\ pc = "cursors"
    /\ argv = << >>
    /\ stdin = << >>
    /\ fileA = NoFile
    /\ fileB = NoFile
    /\ key = << >>
    /\ len = << 0 >>
    /\ ks_it = NoKsIt
    /\ ks_gen = NoGen
    /\ in1 = NoIt
    /\ in2 = NoIt
    /\ out = << >>
    /\ err = << >>
    /\ exit_code = NoExit
    /\ run = 1
    /\ orig_in = << >>
    /\ chain = NoChain
    /\ hkey \in [Instances -> CursorKeys]
    /\ hgen = [i \in Instances |-> NoGen]
    /\ hout = [i \in Instances |-> << >>]
    /\ hit = [i \in Instances |-> NoKsIt]
    /\ hadv = [i \in Instances |-> 0]
    /\ hobs = [i \in Instances |-> NoObs]
    /\ hcmp = NoCmp

\* the caller encrypts two data of one length with one key file of keysize
\* bytes and hands the two outputs to the xor mode:
\*   terrible crypt k < d1 > a;  terrible crypt k < d2 > b;  terrible xor a b
InitReuse ==
    \E kf \in GoodKeyFiles, d1 \in DataSeqs :
        \E d2 \in { d \in DataSeqs : Len(d) = Len(d1) } :
            /\ chain = [reuse |-> TRUE, d2 |-> d2]
            /\ InitRun(<< "crypt", kf >>, d1, NoFile, NoFile)

Init ==
    \/ InitUsage
    \/ InitCrypt
    \/ InitKeystream
    \/ InitXor
    \/ InitHarness
    \/ InitCursors
    \/ InitReuse

(***************************************************************************)
(* How main ends.                                                          *)
(***************************************************************************)
\* return retval
Return(retval, line) ==
    /\ pc' = "done"
    /\ exit_code' = retval
    /\ err' = IF line = "" THEN err ELSE Append(err, line)

\* int usage(int retval): the usage text on std::cerr, retval returned
usage(retval) == Return(retval, "USAGE")

\* catch(std::exception& e): "Error: " << e.what() on std::cerr, return 3
catch(what) == Return(3, what)

\* the program is stopped (undefined behaviour caught by a checked build)
Abort ==
    /\ pc' = "aborted"
    /\ UNCHANGED << exit_code, err >>

(***************************************************************************)
(* main (lines 125-167).                                                   *)
(***************************************************************************)
\* lines 126-128: no command
MainNoCommand ==
    /\ pc = "start"
    /\ argc < 2
    /\ usage(1)
    /\ UNCHANGED << argv, stdin, fileA, fileB, key, len, ks_it, ks_gen, in1, in2,
                    out, run, orig_in, chain, harnessVars >>

\* lines 160-162: a command that is none of the three
MainUnknownCommand ==
    /\ pc = "start"
    /\ argc >= 2
    /\ argv[1] \notin { "crypt", "keystream", "xor" }
    /\ usage(1)
    /\ UNCHANGED << argv, stdin, fileA, fileB, key, len, ks_it, ks_gen, in1, in2,
                    out, run, orig_in, chain, harnessVars >>

\* lines 133-137: in_it is constructed on std::cin, then argc is checked
CryptBegin ==
    /\ pc = "start"
    /\ argc >= 2
    /\ argv[1] = "crypt"
    /\ in1' = istream_iterator(stdin)
    /\ IF argc < 3
       THEN usage(1)
       ELSE pc' = "crypt_read_key" /\ UNCHANGED << exit_code, err >>
    /\ UNCHANGED << argv, stdin, fileA, fileB, key, len, ks_it, ks_gen, in2,
                    out, run, orig_in, chain, harnessVars >>

\* bytes key = read_key(argv[2]) (lines 138 and 143)
ReadKey(next) ==
    \E r \in read_key(argv[2]) :
        /\ CASE r.kind = "throw" -> catch(r.what) /\ key' = key
             [] r.kind = "abort" -> Abort /\ key' = key
             [] r.kind = "ok"    -> /\ key' = r.key
                                    /\ pc' = next
                                    /\ UNCHANGED << exit_code, err >>

CryptReadKey ==
    /\ pc = "crypt_read_key"
    /\ ReadKey("crypt_ctor")
    /\ UNCHANGED << argv, stdin, fileA, fileB, len, ks_it, ks_gen, in1, in2,
                    out, run, orig_in, chain, harnessVars >>

\* line 139: the temporary keystream_iterator{key}
CryptCtor ==
    /\ pc = "crypt_ctor"
    /\ LET p == pass_key(key)
       IN  /\ \E r \in keystream_iterator(p.param) :
                  IF r.threw
                  THEN catch(r.what) /\ ks_it' = ks_it
                  ELSE ks_it' = r.it /\ pc' = "crypt_loop" /\ UNCHANGED << exit_code, err >>
           /\ key' = p.caller
    /\ UNCHANGED << argv, stdin, fileA, fileB, len, ks_gen, in1, in2,
                    out, run, orig_in, chain, harnessVars >>

\* line 139, one round of std::transform:
\*   *out++ = bit_xor(*first1, *first2); ++first1; ++first2
CryptStep ==
    /\ pc = "crypt_loop"
    /\ in1.ok
    /\ out' = Append(out, bit_xor(in1.value, it_deref(ks_it)))
    /\ in1' = is_read(in1, stdin)
    /\ ks_it' = it_inc(ks_it)
    /\ UNCHANGED << pc, argv, stdin, fileA, fileB, key, len, ks_gen, in2,
                    err, exit_code, run, orig_in, chain, harnessVars >>

\* line 139: first1 == last1 ends std::transform; line 163: return 0
CryptEnd ==
    /\ pc = "crypt_loop"
    /\ ~in1.ok
    /\ Return(0, "")
    /\ UNCHANGED << argv, stdin, fileA, fileB, key, len, ks_it, ks_gen, in1, in2,
                    out, run, orig_in, chain, harnessVars >>

\* lines 140-142
KeystreamBegin ==
    /\ pc = "start"
    /\ argc >= 2
    /\ argv[1] = "keystream"
    /\ IF argc < 4
       THEN usage(1)
       ELSE pc' = "ks_read_key" /\ UNCHANGED << exit_code, err >>
    /\ UNCHANGED << argv, stdin, fileA, fileB, key, len, ks_it, ks_gen, in1, in2,
                    out, run, orig_in, chain, harnessVars >>

KeystreamReadKey ==
    /\ pc = "ks_read_key"
    /\ ReadKey("ks_stoul")
    /\ UNCHANGED << argv, stdin, fileA, fileB, len, ks_it, ks_gen, in1, in2,
                    out, run, orig_in, chain, harnessVars >>

\* mutant of KeystreamStoul: the first keystream byte is written before the
\* length argument is parsed
KeystreamStoul_after_output ==
    /\ pc = "ks_stoul"
    /\ out' = Append(out, At(key, 0))
    /\ LET r == stoul(argv[3])
       IN  IF r.threw
           THEN catch(r.what) /\ len' = len
           ELSE len' = r.value /\ pc' = "ks_ctor" /\ UNCHANGED << exit_code, err >>
    /\ UNCHANGED << argv, stdin, fileA, fileB, key, ks_it, ks_gen, in1, in2,
                    run, orig_in, chain, harnessVars >>

\* line 144: auto len = std::stoul(argv[3])
KeystreamStoul ==
    /\ pc = "ks_stoul"
    /\ LET r == stoul(argv[3])
       IN  IF r.threw
           THEN catch(r.what) /\ len' = len
           ELSE len' = r.value /\ pc' = "ks_ctor" /\ UNCHANGED << exit_code, err >>
    /\ UNCHANGED << argv, stdin, fileA, fileB, key, ks_it, ks_gen, in1, in2,
                    out, run, orig_in, chain, harnessVars >>

\* line 145: the temporary keystream_generator{key}
KeystreamCtor ==
    /\ pc = "ks_ctor"
    /\ LET p == pass_key(key)
       IN  /\ \E r \in keystream_generator(p.param) :
                  IF r.threw
                  THEN catch(r.what) /\ ks_gen' = ks_gen
                  ELSE ks_gen' = r.gen /\ pc' = "ks_loop" /\ UNCHANGED << exit_code, err >>
           /\ key' = p.caller
    /\ UNCHANGED << argv, stdin, fileA, fileB, len, ks_it, in1, in2,
                    out, run, orig_in, chain, harnessVars >>

\* mutant of generate_n_more: the loop stops one round early, or never
generate_n_more_early(n) == n # << 1 >>

\* mutant of generate_n_more: the count is not tested
generate_n_more_always(n) == n = n

\* std::generate_n's loop test n > 0 on the unsigned count
generate_n_more(n) == n # << 0 >>

\* line 145, one round of std::generate_n: while (n > 0) { *out++ = gen(); --n; }
KeystreamStep ==
    /\ pc = "ks_loop"
    /\ generate_n_more(len)
    /\ Len(out) < MaxOut
    /\ LET c == call(ks_gen)
       IN  /\ out' = Append(out, c.ret)
           /\ ks_gen' = c.gen
    /\ len' = ul_dec(len)
    /\ UNCHANGED << pc, argv, stdin, fileA, fileB, key, ks_it, in1, in2,
                    err, exit_code, run, orig_in, chain, harnessVars >>

\* line 145: n == 0 ends std::generate_n; line 163: return 0
KeystreamEnd ==
    /\ pc = "ks_loop"
    /\ ~generate_n_more(len)
    /\ Return(0, "")
    /\ UNCHANGED << argv, stdin, fileA, fileB, key, len, ks_it, ks_gen, in1, in2,
                    out, run, orig_in, chain, harnessVars >>

\* lines 146-158: argc, the two std::fstream, the two byte_it
XorBegin ==
    /\ pc = "start"
    /\ argc >= 2
    /\ argv[1] = "xor"
    /\ IF argc < 4
       THEN usage(1) /\ UNCHANGED << in1, in2 >>
       ELSE IF ~FS(argv[2]).exists \/ ~FS(argv[3]).exists
            THEN Return(2, "Error: could not open file!") /\ UNCHANGED << in1, in2 >>
            ELSE /\ in1' = istream_iterator(FS(argv[2]).data)
                 /\ in2' = istream_iterator(FS(argv[3]).data)
                 /\ pc' = "xor_loop"
                 /\ UNCHANGED << exit_code, err >>
    /\ UNCHANGED << argv, stdin, fileA, fileB, key, len, ks_it, ks_gen,
                    out, run, orig_in, chain, harnessVars >>

\* line 159, one round of std::transform with both iterators readable
XorStep ==
    /\ pc = "xor_loop"
    /\ in1.ok
    /\ in2.ok
    /\ out' = Append(out, bit_xor(in1.value, in2.value))
    /\ in1' = is_read(in1, FS(argv[2]).data)
    /\ in2' = is_read(in2, FS(argv[3]).data)
    /\ UNCHANGED << pc, argv, stdin, fileA, fileB, key, len, ks_it, ks_gen,
                    err, exit_code, run, orig_in, chain, harnessVars >>

\* line 159, one round of std::transform after file_2 ended: only first1 is
\* compared with the end, so *first2 is read at end-of-stream (undefined)
XorStepPastEnd ==
    /\ pc = "xor_loop"
    /\ in1.ok
    /\ ~in2.ok
    /\ \/ \E v \in stale_values(in2) :
              /\ out' = Append(out, bit_xor(in1.value, v))
              /\ in1' = is_read(in1, FS(argv[2]).data)
              /\ in2' = [in2 EXCEPT !.held = TRUE, !.value = v]
              /\ UNCHANGED << pc, exit_code, err >>
       \/ /\ Abort
          /\ UNCHANGED << in1, in2, out >>
    /\ UNCHANGED << argv, stdin, fileA, fileB, key, len, ks_it, ks_gen,
                    run, orig_in, chain, harnessVars >>

\* line 159: first1 == last1 ends std::transform; line 163: return 0
XorEnd ==
    /\ pc = "xor_loop"
    /\ ~in1.ok
    /\ Return(0, "")
    /\ UNCHANGED << argv, stdin, fileA, fileB, key, len, ks_it, ks_gen, in1, in2,
                    out, run, orig_in, chain, harnessVars >>

\* The caller runs crypt again, with the same key file, on the output of a
\* crypt run that succeeded:  terrible crypt k < data | terrible crypt k
\* (tried with the key files read_key reads without undefined behaviour)
Pipe ==
    /\ pc = "done"
    /\ run = 1
    /\ ~chain.reuse
    /\ exit_code = 0
    /\ argv[1] = "crypt"
    /\ Len(FS(argv[2]).data) >= keysize
    /\ pc' = "start"
    /\ run' = 2
    /\ stdin' = out
    /\ out' = << >>
    /\ err' = << >>
    /\ exit_code' = NoExit
    /\ key' = << >>
    /\ ks_it' = NoKsIt
    /\ in1' = NoIt
    /\ UNCHANGED << argv, fileA, fileB, len, ks_gen, in2, orig_in, chain, harnessVars >>

\* The caller of the reuse chain has the first output in the file "a" and
\* runs crypt, with the same key file, on the second data:
\*   terrible crypt k < d1 > a;  terrible crypt k < d2 > b
ReuseSecond ==
    /\ pc = "done"
    /\ run = 1
    /\ chain.reuse
    /\ exit_code = 0
    /\ pc' = "start"
    /\ run' = 3
    /\ fileA' = [exists |-> TRUE, data |-> out]
    /\ stdin' = chain.d2
    /\ out' = << >>
    /\ err' = << >>
    /\ exit_code' = NoExit
    /\ key' = << >>
    /\ ks_it' = NoKsIt
    /\ in1' = NoIt
    /\ UNCHANGED << argv, fileB, len, ks_gen, in2, orig_in, chain, harnessVars >>

\* The caller has the second output in the file "b" and runs the xor mode
\* on the two files:  terrible xor a b
ReuseXor ==
    /\ pc = "done"
    /\ run = 3
    /\ chain.reuse
    /\ exit_code = 0
    /\ pc' = "start"
    /\ run' = 4
    /\ argv' = << "xor", "a", "b" >>
    /\ fileB' = [exists |-> TRUE, data |-> out]
    /\ stdin' = << >>
    /\ out' = << >>
    /\ err' = << >>
    /\ exit_code' = NoExit
    /\ key' = << >>
    /\ ks_it' = NoKsIt
    /\ in1' = NoIt
    /\ UNCHANGED << fileA, len, ks_gen, in2, orig_in, chain, harnessVars >>

(***************************************************************************)
(* The class-level harness: a caller constructs generators and calls them. *)
(***************************************************************************)
\* keystream_generator g{hkey[i]}
HConstruct(i) ==
    /\ pc = "harness"
    /\ hgen[i] = NoGen
    /\ LET p == pass_key(hkey[i])
       IN  /\ \E r \in keystream_generator(p.param) :
                  hgen' = [hgen EXCEPT ![i] = r.gen]
           /\ hkey' = [hkey EXCEPT ![i] = p.caller]
    /\ UNCHANGED << pc, mainVars, hout, hit, hadv, hobs, hcmp >>

\* g()
HCall(i) ==
    /\ pc = "harness"
    /\ hgen[i].built
    /\ Len(hout[i]) < MaxCalls
    /\ LET c == call(hgen[i])
       IN  /\ hgen' = [hgen EXCEPT ![i] = c.gen]
           /\ hout' = [hout EXCEPT ![i] = Append(@, c.ret)]
    /\ UNCHANGED << pc, mainVars, hkey, hit, hadv, hobs, hcmp >>

(***************************************************************************)
(* The class-level harness on cursors.                                     *)
(***************************************************************************)
\* keystream_iterator c{hkey[i]}
CConstruct(i) ==
    /\ pc = "cursors"
    /\ hit[i] = NoKsIt
    /\ LET p == pass_key(hkey[i])
       IN  /\ \E r \in keystream_iterator(p.param) :
                  hit' = [hit EXCEPT ![i] =
                             IF r.threw THEN [m_gen |-> Threw, m_current |-> 0]
                             ELSE r.it]
           /\ hkey' = [hkey EXCEPT ![i] = p.caller]
    /\ hcmp' = NoCmp
    /\ UNCHANGED << pc, mainVars, hgen, hout, hadv, hobs >>

\* ++c
CPreInc(i) ==
    /\ pc = "cursors"
    /\ hit[i].m_gen.built
    /\ hadv[i] < MaxCalls
    /\ hit' = [hit EXCEPT ![i] = it_inc(hit[i])]
    /\ hadv' = [hadv EXCEPT ![i] = @ + 1]
    /\ hobs' = [hobs EXCEPT ![i] = [op |-> "pre", value |-> 0, n |-> 0]]
    /\ hcmp' = NoCmp
    /\ UNCHANGED << pc, mainVars, hkey, hgen, hout >>

\* b = *c++  (the byte_wrapper returned is read at once)
CPostInc(i) ==
    /\ pc = "cursors"
    /\ hit[i].m_gen.built
    /\ hadv[i] < MaxCalls
    /\ LET r == it_post_inc(hit[i])
       IN  /\ hit' = [hit EXCEPT ![i] = r.it]
           /\ hobs' = [hobs EXCEPT ![i] = [op |-> "post", value |-> r.retval, n |-> 0]]
    /\ hadv' = [hadv EXCEPT ![i] = @ + 1]
    /\ hcmp' = NoCmp
    /\ UNCHANGED << pc, mainVars, hkey, hgen, hout >>

\* b = *c  (a const member: the cursor is left alone)
CDeref(i) ==
    /\ pc = "cursors"
    /\ hit[i].m_gen.built
    /\ hobs[i].op = "deref" => hobs[i].n < MaxDerefs
    /\ hobs' = [hobs EXCEPT ![i] =
                    [op |-> "deref", value |-> it_deref(hit[i]),
                     n |-> IF hobs[i].op = "deref" THEN hobs[i].n + 1 ELSE 1]]
    /\ UNCHANGED << pc, mainVars, hkey, hgen, hout, hit, hadv, hcmp >>

\* c1 == c2 and c1 != c2
CCompare ==
    /\ pc = "cursors"
    /\ \A i \in Instances : hit[i].m_gen.built
    /\ ~hcmp.done
    /\ hcmp' = [done |-> TRUE,
                eq   |-> it_eq(hit[1], hit[2]),
                neq  |-> it_neq(hit[1], hit[2])]
    /\ UNCHANGED << pc, mainVars, hkey, hgen, hout, hit, hadv, hobs >>

Next ==
    \/ MainNoCommand
    \/ MainUnknownCommand
    \/ CryptBegin
    \/ CryptReadKey
    \/ CryptCtor
    \/ CryptStep
    \/ CryptEnd
    \/ KeystreamBegin
    \/ KeystreamReadKey
    \/ KeystreamStoul
    \/ KeystreamCtor
    \/ KeystreamStep
    \/ KeystreamEnd
    \/ XorBegin
    \/ XorStep
    \/ XorStepPastEnd
    \/ XorEnd
    \/ Pipe
    \/ ReuseSecond
    \/ ReuseXor
    \/ \E i \in Instances : HConstruct(i)
    \/ \E i \in Instances : HCall(i)
    \/ \E i \in Instances : CConstruct(i)
    \/ \E i \in Instances : CPreInc(i)
    \/ \E i \in Instances : CPostInc(i)
    \/ \E i \in Instances : CDeref(i)
    \/ CCompare

Spec == Init /\ [][Next]_vars

\* the steps of one run of the program, from the entry of main to its end
RunStep ==
    \/ MainNoCommand
    \/ MainUnknownCommand
    \/ CryptBegin
    \/ CryptReadKey
    \/ CryptCtor
    \/ CryptStep
    \/ CryptEnd
    \/ KeystreamBegin
    \/ KeystreamReadKey
    \/ KeystreamStoul
    \/ KeystreamCtor
    \/ KeystreamStep
    \/ KeystreamEnd
    \/ XorBegin
    \/ XorStep
    \/ XorStepPastEnd
    \/ XorEnd

\* The invocations of the program, one run each.  Of the key files that are
\* too short, the one-byte file and the file one byte short are kept and the
\* empty one is left out: its 256 outcomes of the read past the end differ
\* in the bytes of the key only, not in the steps the run takes.
InitOneRun ==
    /\ InitUsage \/ InitCrypt \/ InitKeystream \/ InitXor
    /\ (argc >= 3 /\ argv[1] \in { "crypt", "keystream" }) => argv[2] # "empty"

\* One run of the program, carried through.  The program is one sequential
\* process that blocks only on its input, and its inputs (standard input,
\* the files) are finite and at hand: a run that can take a step takes one.
FairSpec == InitOneRun /\ [][RunStep]_vars /\ WF_vars(RunStep)

(***************************************************************************)
(* Reference notions the claims are stated with.                           *)
(***************************************************************************)
\* a generator freshly constructed from a key of keysize bytes
fresh(k) == (CHOOSE r \in keystream_generator(k) : TRUE).gen

\* n calls on generator g: the generator they leave and the bytes they
\* return, in order.  The calls are made half by half, the second half on
\* the generator the first half leaves.
RECURSIVE gen_run(_, _)
gen_run(g, n) ==
    IF n = 0 THEN [gen |-> g, bytes |-> << >>]
    ELSE IF n = 1 THEN LET c == call(g) IN [gen |-> c.gen, bytes |-> << c.ret >>]
    ELSE LET a == gen_run(g, n \div 2)
         IN  IF ~a.gen.built THEN a
             ELSE LET b == gen_run(a.gen, n - (n \div 2))
                  IN  [gen |-> b.gen, bytes |-> a.bytes \o b.bytes]

\* the first n bytes generator g produces
gen_bytes(g, n) == gen_run(g, n).bytes

\* the number of positions of s that hold v
Count(s, v) == Cardinality({ i \in DOMAIN s : s[i] = v })

\* s and t hold the same multiset of values
IsPermutation(s, t) ==
    /\ Len(s) = Len(t)
    /\ \A v \in Range(s) \cup Range(t) : Count(s, v) = Count(t, v)

Min(a, b) == IF a < b THEN a ELSE b

\* the generators the state holds, each with the key it was constructed from
Generators ==
    { [gen |-> hgen[i], from |-> hkey[i]] : i \in { j \in Instances : hgen[j].built } }
    \cup (IF ks_gen.built THEN { [gen |-> ks_gen, from |-> key] } ELSE { })
    \cup (IF ks_it.m_gen.built THEN { [gen |-> ks_it.m_gen, from |-> key] } ELSE { })

InCrypt == pc \notin { "harness", "cursors" } /\ argc >= 3 /\ argv[1] = "crypt"

InKeystream == pc \notin { "harness", "cursors" } /\ argc >= 4 /\ argv[1] = "keystream"

InXor == pc \notin { "harness", "cursors" } /\ argc >= 4 /\ argv[1] = "xor"

\* the key file named on the command line holds exactly keysize bytes
ValidKeyFile == FS(argv[2]).exists /\ Len(FS(argv[2]).data) = keysize

(***************************************************************************)
(* C4. Permutation invariant: every generator's working key has keysize    *)
(* bytes and holds the same multiset of byte values as the key it was      *)
(* constructed from, after any number of calls (zero included).            *)
(***************************************************************************)
C4_PermutationInvariant ==
    \A x \in Generators :
        /\ Len(x.gen.m_key) = keysize
        /\ IsPermutation(x.gen.m_key, x.from)

\* a generator called MaxCalls times whose working key is no longer the key
C4_Witness ==
    \E i \in Instances :
        /\ hgen[i].built
        /\ hgen[i].m_i = MaxCalls
        /\ hgen[i].m_key # hkey[i]
        /\ Cardinality(Range(hkey[i])) > 2

(***************************************************************************)
(* C5. Alphabet containment: every byte a generator returns occurs in the  *)
(* key it was constructed from, and the index w of the next call's lookup  *)
(* lies within 0..255, inside the working key.                             *)
(***************************************************************************)
C5_AlphabetContainment ==
    /\ \A i \in Instances : Range(hout[i]) \subseteq Range(hkey[i])
    /\ InKeystream => Range(out) \subseteq Range(key)
    /\ \A x \in Generators :
           /\ call(x.gen).w \in 0..(keysize - 1)
           /\ call(x.gen).w < Len(x.gen.m_key)
           /\ call(x.gen).ret \in Range(x.from)

\* a generator over a key of one value, 7, returned MaxCalls bytes; the
\* lookup index of its calls, 14, is not a value of the key
C5_Witness ==
    \E i \in Instances :
        /\ hgen[i].built
        /\ Len(hout[i]) = MaxCalls
        /\ Range(hkey[i]) = { 7 }
        /\ call(hgen[i]).w = 14

(***************************************************************************)
(* C8. Determinism: two generators freshly constructed from the same key   *)
(* and called the same number of times returned the same bytes and are in  *)
(* the same state (working key, step counter, accumulator).                *)
(***************************************************************************)
C8_Determinism ==
    ( /\ hkey[1] = hkey[2]
      /\ hgen[1].built
      /\ hgen[2].built
      /\ Len(hout[1]) = Len(hout[2]) )
    => /\ hout[1] = hout[2]
       /\ hgen[1].m_key = hgen[2].m_key
       /\ hgen[1].m_i = hgen[2].m_i
       /\ hgen[1].m_q = hgen[2].m_q

\* both instances, over the same key, were called MaxCalls times and the
\* bytes returned are not all the same
C8_Witness ==
    /\ hkey[1] = hkey[2]
    /\ hgen[1].built
    /\ hgen[2].built
    /\ Len(hout[1]) = MaxCalls
    /\ Len(hout[2]) = MaxCalls
    /\ Cardinality(Range(hout[1])) > 1

(***************************************************************************)
(* C10. Construction fails exactly when the key does not have keysize      *)
(* bytes; a constructed generator holds a working key of keysize bytes;    *)
(* and a call on it reads and writes the working key within its bounds     *)
(* (h, the accumulator q and w), so no later operation fails.              *)
(***************************************************************************)
C10_ConstructionFailsIffBadSize ==
    \A i \in Instances :
        /\ hgen[i] # NoGen => (hgen[i] = Threw <=> Len(hkey[i]) # keysize)
        /\ hgen[i].built =>
               /\ Len(gen_key(hgen[i])) = keysize
               /\ gen_pos(hgen[i]) \in Nat
               /\ LET c == call(hgen[i])
                  IN  { c.h, c.gen.m_q, c.w } \subseteq 0..(Len(hgen[i].m_key) - 1)

\* the constructor threw for one caller's key and built a generator, since
\* called MaxCalls times, from the other's
C10_Witness ==
    /\ hgen[1] = Threw
    /\ Len(hkey[1]) = keysize + 1
    /\ hgen[2].built
    /\ Len(hout[2]) = MaxCalls

(***************************************************************************)
(* C7. keystream mode: the output is at every moment the first bytes a     *)
(* generator freshly constructed from the key produces, never more than    *)
(* the requested count n, and exactly n of them when the run ends; no      *)
(* input iterator is ever constructed.                                     *)
(***************************************************************************)
C7_KeystreamEmitsExactlyN ==
    ( /\ InKeystream
      /\ ~stoul(argv[3]).threw )
    => /\ in1 = NoIt /\ in2 = NoIt
       /\ pc \in { "ks_loop", "done" } /\ ks_gen.built =>
              /\ ul_le(ul_of_nat(Len(out)), stoul(argv[3]).value)
              /\ out = gen_bytes(fresh(key), Len(out))
       /\ pc = "done" /\ exit_code = 0 => ul_of_nat(Len(out)) = stoul(argv[3]).value

\* a run asked for 257 bytes ended, and one asked for 0 bytes would too
C7_Witness ==
    /\ InKeystream
    /\ pc = "done"
    /\ exit_code = 0
    /\ argv[3] = << "2", "5", "7" >>
    /\ Len(out) = 257
    /\ Cardinality(Range(out)) > 2

(***************************************************************************)
(* C6. crypt is positional XOR with the keystream from its initial state:  *)
(* with a key file of keysize bytes, output byte i is input byte i XOR the *)
(* i-th byte of a freshly constructed generator, one output byte per input *)
(* byte consumed, and as many bytes as the input holds when the run ends.  *)
(***************************************************************************)
C6_CryptIsPositionalXor ==
    ( /\ InCrypt
      /\ ValidKeyFile
      /\ pc \in { "crypt_loop", "done" } )
    => /\ Len(out) <= Len(stdin)
       /\ LET g == gen_bytes(fresh(key), Len(out))
          IN  \A i \in 1..Len(out) : out[i] = bit_xor(stdin[i], g[i])
       /\ pc = "done" => exit_code = 0 /\ Len(out) = Len(stdin)

\* a first crypt run over MaxData input bytes ended
C6_Witness ==
    /\ InCrypt
    /\ ValidKeyFile
    /\ run = 1
    /\ pc = "done"
    /\ Len(stdin) = MaxData
    /\ Len(out) = MaxData
    /\ out # stdin

(***************************************************************************)
(* C1. Self-inverse crypt: with a key file of keysize bytes, crypt run on  *)
(* the output of crypt with the same key file ends with the original data  *)
(* on its output.                                                          *)
(***************************************************************************)
C1_CryptSelfInverse ==
    ( /\ InCrypt
      /\ ValidKeyFile
      /\ run = 2
      /\ pc = "done" )
    => /\ exit_code = 0
       /\ out = orig_in

\* the second run ended; its input, the first run's output, is MaxData bytes
\* that differ from the original data
C1_Witness ==
    /\ InCrypt
    /\ ValidKeyFile
    /\ run = 2
    /\ pc = "done"
    /\ Len(orig_in) = MaxData
    /\ stdin # orig_in
    /\ out = orig_in

(***************************************************************************)
(* C2. Shorter-wins truncation in xor mode, as claimed: with both files    *)
(* open, no iterator is read at end-of-stream, the output is the byte-wise *)
(* XOR of the two files and never longer than the shorter one, and has     *)
(* exactly the length of the shorter one when the run ends.                *)
(* The code compares only the first iterator with the end.                 *)
(***************************************************************************)
C2_XorShorterWins ==
    ( /\ InXor
      /\ FS(argv[2]).exists
      /\ FS(argv[3]).exists )
    => LET a == FS(argv[2]).data
           b == FS(argv[3]).data
       IN  /\ pc # "aborted"
           /\ Len(out) <= Min(Len(a), Len(b))
           /\ \A i \in 1..Min(Len(out), Min(Len(a), Len(b))) :
                  out[i] = bit_xor(a[i], b[i])
           /\ pc = "done" => exit_code = 0 /\ Len(out) = Min(Len(a), Len(b))

(***************************************************************************)
(* C3. Key-size rejection at the mode level, as claimed: crypt or          *)
(* keystream with a key file that is not exactly keysize bytes writes no   *)
(* output and ends with the key-size error and exit code 3.                *)
(* read_key appends keysize bytes whatever the file holds.                 *)
(***************************************************************************)
C3_KeySizeRejected ==
    ( /\ InCrypt \/ InKeystream
      /\ FS(argv[2]).exists
      /\ Len(FS(argv[2]).data) # keysize )
    => /\ out = << >>
       /\ pc = "done" => exit_code = 3

(***************************************************************************)
(* C9. keystream mode rejects a length argument that does not denote a     *)
(* non-negative integer, as claimed: such a run writes no keystream byte   *)
(* and ends with exit code 3.                                              *)
(* std::stoul accepts a leading '-' and ignores what follows the digits.   *)
(* A number above 2^64 - 1 counts as no such integer here; the code rejects *)
(* it.                                                                     *)
(***************************************************************************)
C9_BadLengthRejected ==
    ( /\ InKeystream
      /\ ~IsNonNegInteger(argv[3]) )
    => /\ out = << >>
       /\ pc = "done" => exit_code = 3

(***************************************************************************)
(* C11.  One call of the generator.                                        *)
(***************************************************************************)
\* The five steps of the step algorithm, written out on plain sequences:
\* g is the generator before a call, g2 after it, b the byte returned.
FiveSteps(g, g2, b) ==
    LET h  == (g.m_i + 1) % 256
        q  == (g.m_q + g.m_key[h + 1]) % 256
        wk == [j \in 1..256 |->
                 IF j = h + 1 THEN g.m_key[q + 1]
                 ELSE IF j = q + 1 THEN g.m_key[h + 1]
                 ELSE g.m_key[j]]
        w  == (wk[h + 1] + wk[q + 1]) % 256
    IN  /\ g2.m_i % 256 = h
        /\ g2.m_q = q
        /\ g2.m_key = wk
        /\ b = wk[w + 1]

IdentityKey == PatternBytes("id", keysize)

\* C11: every call of a generator, in the harness and in the keystream and
\* crypt modes, takes the generator from its state before the call to the
\* state the five steps give (h the incremented counter mod 256, q the old
\* accumulator plus working_key[h] read before the swap, the two entries
\* swapped, q stored) and returns working_key[(wk[h] + wk[q]) mod 256] of
\* the swapped key; and the first byte generated from the identity key is 2.
C11_FiveStepAlgorithm ==
    /\ [] /\ \A i \in Instances :
               (hkey[i] = IdentityKey /\ Len(hout[i]) >= 1) => hout[i][1] = 2
          /\ (InKeystream /\ key = IdentityKey /\ Len(out) >= 1) => out[1] = 2
    /\ [][ /\ \A i \in Instances :
               (hgen[i].built /\ hgen'[i] # hgen[i])
               => FiveSteps(hgen[i], hgen'[i], Last(hout'[i]))
           /\ (ks_gen.built /\ ks_gen'.built /\ ks_gen' # ks_gen)
               => FiveSteps(ks_gen, ks_gen', Last(out'))
           /\ ( ks_it.m_gen.built /\ ks_it'.m_gen.built /\ ks_it' # ks_it)
               => FiveSteps(ks_it.m_gen, ks_it'.m_gen, ks_it'.m_current)
         ]_vars

\* Four calls on the identity key: the first returned 2, and the later ones
\* swapped entries, so the working key left the identity.
C11_Witness ==
    \E i \in Instances :
        /\ hkey[i] = IdentityKey
        /\ Len(hout[i]) = MaxCalls
        /\ hout[i][1] = 2
        /\ hgen[i].m_key # hkey[i]

(***************************************************************************)
(* C12.  The step counter.                                                 *)
(***************************************************************************)
\* C12: the index h of the k-th call on a generator is k mod 256: with k - 1
\* calls made, the next call uses h = k mod 256, so the first call uses 1
\* and the 256th uses 0.  The calls made are counted by the bytes the
\* harness or the keystream mode received; crypt's cursor has made one call
\* more than the bytes written.
C12_StepCounterSequence ==
    /\ \A i \in Instances :
           hgen[i].built
           => /\ gen_pos(hgen[i]) = Len(hout[i])
              /\ call(hgen[i]).h = (Len(hout[i]) + 1) % 256
    /\ (InKeystream /\ pc = "ks_loop")
       => /\ gen_pos(ks_gen) = Len(out)
          /\ call(ks_gen).h = (Len(out) + 1) % 256
    /\ (InCrypt /\ pc = "crypt_loop")
       => call(ks_it.m_gen).h = (Len(out) + 2) % 256

\* 255 bytes are written and one more is due: the 256th call uses index 0.
C12_Witness ==
    /\ InKeystream
    /\ pc = "ks_loop"
    /\ Len(out) = keysize - 1
    /\ generate_n_more(len)
    /\ call(ks_gen).h = 0

(***************************************************************************)
(* C13.  The exit-code mapping.                                            *)
(***************************************************************************)
UsageError ==
    \/ argc < 2
    \/ argv[1] \notin {"crypt", "keystream", "xor"}
    \/ argv[1] = "crypt" /\ argc < 3
    \/ argv[1] \in {"keystream", "xor"} /\ argc < 4

OpenFailure ==
    /\ InXor
    /\ ~FS(argv[2]).exists \/ ~FS(argv[3]).exists

RuntimeFailure ==
    /\ InCrypt \/ InKeystream
    /\ \/ ~FS(argv[2]).exists
       \/ Len(FS(argv[2]).data) # keysize
       \/ InKeystream /\ ~IsNonNegInteger(argv[3])

ExpectedExit ==
    IF UsageError THEN 1
    ELSE IF OpenFailure THEN 2
    ELSE IF RuntimeFailure THEN 3
    ELSE 0

\* C13: a run that has ended returned the code the mapping gives: 1 exactly
\* for a missing or unknown command or too few arguments, 2 exactly when xor
\* has its arguments and a file failed to open, 3 for an unopenable key
\* file, a key file that is not 256 bytes or an unparsable length, 0
\* otherwise.
C13_ExitCodeMapping ==
    pc = "done" => exit_code = ExpectedExit

(***************************************************************************)
(* C14.  No output before validation.                                      *)
(***************************************************************************)
\* C14: a run that has written a byte has passed every check of its mode
\* (crypt: key read and cursor constructed; keystream: key read, length
\* parsed, generator constructed; xor: both files open), and a run that
\* returned a non-zero exit code has written nothing.
C14_NoOutputBeforeValidation ==
    /\ (pc = "done" /\ exit_code # 0) => out = << >>
    /\ out # << >>
       => /\ pc \in {"crypt_loop", "ks_loop", "xor_loop", "done", "aborted"}
          /\ InCrypt => Len(key) = keysize /\ ks_it.m_gen.built
          /\ InKeystream => /\ Len(key) = keysize /\ ks_gen.built
                            /\ ~stoul(argv[3]).threw
          /\ InXor => /\ FS(argv[2]).exists /\ FS(argv[3]).exists
                      /\ in1 # NoIt /\ in2 # NoIt
          /\ InCrypt \/ InKeystream \/ InXor

\* A keystream run whose key file was read and whose length argument then
\* failed to parse: it returned 3 with nothing written.
C14_Witness ==
    /\ InKeystream
    /\ pc = "done"
    /\ exit_code = 3
    /\ Len(key) = keysize
    /\ stoul(argv[3]).threw
    /\ out = << >>

(***************************************************************************)
(* C15.  Key isolation.                                                    *)
(***************************************************************************)
\* C15: no step changes a key vector its caller holds: the vectors of the
\* harness callers across construction, calls and advances, and main's
\* `key` from the moment read_key returned it to the end of the run.
C15_KeyIsolation ==
    [][ /\ pc \in { "harness", "cursors" } => hkey' = hkey
        /\ pc \in { "crypt_ctor", "crypt_loop", "ks_stoul", "ks_ctor", "ks_loop" }
           => key' = key
      ]_vars

\* A cursor was advanced MaxCalls times and its working key has left the
\* key of its caller, which still holds keysize bytes.
C15_Witness ==
    \E i \in Instances :
        /\ pc = "cursors"
        /\ hit[i].m_gen.built
        /\ hadv[i] = MaxCalls
        /\ Len(hkey[i]) = keysize
        /\ gen_key(hit[i].m_gen) # hkey[i]

(***************************************************************************)
(* C16.  Cursor equality.                                                  *)
(***************************************************************************)
\* C16: a comparison of two cursors answers equal exactly when their
\* generators hold the same working key and the same position, and
\* operator!= answers the negation of operator==.
C16_CursorEquality ==
    hcmp.done
    => /\ hcmp.eq <=> /\ hit[1].m_gen.m_key = hit[2].m_gen.m_key
                      /\ hit[1].m_gen.m_i = hit[2].m_gen.m_i
       /\ hcmp.neq <=> ~hcmp.eq

\* Two cursors, each advanced at least once, were compared and are equal.
C16_Witness ==
    /\ hcmp.done
    /\ hcmp.eq
    /\ ~hcmp.neq
    /\ hadv[1] >= 1
    /\ hadv[2] = hadv[1]

(***************************************************************************)
(* C17.  The cursor protocol.                                              *)
(***************************************************************************)
\* C17: a cursor constructed from a key and advanced k times, by ++c or c++
\* in any mix, holds as its current byte the (k+1)-th byte a fresh generator
\* of that key produces, and its generator is that generator after exactly
\* k + 1 calls; a read of the current byte returns that byte, however often
\* it is repeated, and c++ returns the k-th byte, the one that was current
\* before the advance.  The cursor of the crypt mode has advanced once per
\* byte written.
C17_CursorProtocol ==
    /\ \A i \in Instances :
           (pc = "cursors" /\ hit[i].m_gen.built)
           => LET k == hadv[i]
                  r == gen_run(fresh(hkey[i]), k + 1)
              IN  /\ hit[i].m_current = r.bytes[k + 1]
                  /\ hit[i].m_gen = r.gen
                  /\ gen_pos(hit[i].m_gen) = k + 1
                  /\ hobs[i].op = "deref" => hobs[i].value = r.bytes[k + 1]
                  /\ hobs[i].op = "post" => hobs[i].value = r.bytes[k]
    /\ (InCrypt /\ pc = "crypt_loop")
       => LET k == Len(out)
              r == gen_run(fresh(key), k + 1)
          IN  /\ it_deref(ks_it) = r.bytes[k + 1]
              /\ ks_it.m_gen = r.gen

\* One cursor was advanced MaxCalls times and then read MaxDerefs times; the
\* other was last advanced by c++, which returned a byte other than the one
\* now current.
C17_Witness ==
    /\ pc = "cursors"
    /\ hadv[1] = MaxCalls
    /\ hobs[1].op = "deref"
    /\ hobs[1].n = MaxDerefs
    /\ hit[2].m_gen.built
    /\ hadv[2] >= 2
    /\ hobs[2].op = "post"
    /\ hobs[2].value # hit[2].m_current

(***************************************************************************)
(* C19.  Equal cursors are interchangeable.                                *)
(***************************************************************************)
\* C19: two cursors that compared equal have the same current byte and the
\* same accumulator, and produce the same bytes under MaxCalls further
\* advances.
C19_EqualCursorsAgree ==
    (pc = "cursors" /\ hcmp.done /\ hcmp.eq)
    => /\ it_deref(hit[1]) = it_deref(hit[2])
       /\ hit[1].m_gen.m_q = hit[2].m_gen.m_q
       /\ gen_bytes(hit[1].m_gen, MaxCalls) = gen_bytes(hit[2].m_gen, MaxCalls)

(***************************************************************************)
(* C20.  Keystream reuse cancels.                                          *)
(***************************************************************************)
\* C20: when two data d1 and d2 of one length n were each run through crypt
\* with one key file of keysize bytes and the two outputs were handed to the
\* xor mode, the xor run ends with exit code 0 and exactly n bytes, byte i
\* being d1[i] XOR d2[i].
C20_KeystreamReuseCancels ==
    (chain.reuse /\ run = 4 /\ pc = "done")
    => /\ exit_code = 0
       /\ Len(out) = Len(orig_in)
       /\ \A i \in 1..Len(out) :
              out[i] = XorBits(orig_in[i], chain.d2[i], 8)

\* The xor run of the chain ended; the data were MaxData bytes each and
\* differ, and the first crypt output differs from its input.
C20_Witness ==
    /\ chain.reuse
    /\ run = 4
    /\ pc = "done"
    /\ Len(orig_in) = MaxData
    /\ orig_in # chain.d2
    /\ fileA.data # orig_in
    /\ Len(fileB.data) = MaxData

(***************************************************************************)
(* C18.  Termination.                                                      *)
(***************************************************************************)
\* the byte count of a keystream run is one the cap MaxOut lets the model
\* follow to its end (a count of 2^64 - k, from a length such as -1, is not)
BudgetWithinCap ==
    InKeystream => \/ stoul(argv[3]).threw
                   \/ ul_le(stoul(argv[3]).value, ul_of_nat(MaxOut))

\* C18: every run of the program that has been started comes to its end,
\* by a return from main or by being stopped: crypt when its input is used
\* up, keystream when its count is zero, xor on files of any two lengths.
C18_Termination ==
    (pc = "start" /\ BudgetWithinCap) ~> (pc \in { "done", "aborted" })

\* An xor run whose first file is longer than its second has ended, having
\* written a byte for every byte of the first file.
C18_Witness ==
    /\ InXor
    /\ argv[3] = "b"
    /\ pc = "done"
    /\ Len(fileA.data) = MaxData
    /\ fileB.exists
    /\ Len(fileB.data) < MaxData
    /\ Len(out) = MaxData

====
